---------------------------- MODULE Spec2Model ----------------------------
(***************************************************************************)
(* Model of select_audio_output.py: the device-name resolver               *)
(* (find_closest_device), the device switch (switch_device), the volume    *)
(* and mute controller (get_volume, set_volume, adjust_volume,             *)
(* toggle_mute) and the command dispatch of main.                          *)
(*                                                                         *)
(* A Python str is modelled as the sequence of its code points, so that    *)
(* lower(), len(), `in`, == and the ordering of strings are computed, not  *)
(* assumed.  An Optional value is a sequence of length 0 (None) or 1.      *)
(***************************************************************************)
EXTENDS Integers, Sequences, FiniteSets, TLC

VARIABLES
    devices,       \* backend: the output devices SwitchAudioSource -a lists
    active,        \* backend: the selected output device
    volume,        \* backend: output volume, 0..100
    muted,         \* backend: output muted flag
    legacyScale,   \* backend: full scale of the legacy `set volume <real>`
    cmd,           \* the command of the last invocation
    arg,           \* its argument: a query string or an integer
    ret,           \* Optional result of the function the command called
    exitCode,      \* process exit status of the last invocation
    exitSite,      \* the function whose sys.exit or return ended it
    calls,         \* backend invocations issued by the last invocation
    stderr,        \* diagnostics the last invocation printed
    stdout,        \* output the last invocation printed
    resolverCalls, \* calls of find_closest_device in the last invocation
    before,        \* backend volume and mute state when the invocation began
    prior,         \* Optional: what the invocation before the last one, if it
                   \* was a toggle_mute, returned and found
    runs,          \* number of invocations so far
    currentVolume  \* Optional: current_volume of adjust_volume, once assigned

vars == <<devices, active, volume, muted, legacyScale, cmd, arg, ret, exitCode,
          exitSite, calls, stderr, stdout, resolverCalls, before, prior, runs,
          currentVolume>>

None == <<>>
Some(x) == <<x>>

(***************************************************************************)
(* Strings                                                                 *)
(***************************************************************************)

\* str.lower() on one code point: 'A'..'Z' (65..90) map to 'a'..'z'.
LowerChar(c) == IF c \in 65..90 THEN c + 32 ELSE c

Lower(s) == [i \in 1..Len(s) |-> LowerChar(s[i])]

\* Python's `x in y` on strings: x occurs in y as a contiguous substring.
Contains(y, x) ==
    \E i \in 0..(Len(y) - Len(x)) : \A k \in 1..Len(x) : y[i + k] = x[k]

\* Python's x < y on strings: lexicographic by code point.
RECURSIVE StrLess(_, _)
StrLess(x, y) ==
    IF y = <<>> THEN FALSE
    ELSE IF x = <<>> THEN TRUE
    ELSE IF Head(x) # Head(y) THEN Head(x) < Head(y)
    ELSE StrLess(Tail(x), Tail(y))

(***************************************************************************)
(* difflib, as find_closest_device uses it.  The names of the device list  *)
(* are far shorter than the 200 elements at which SequenceMatcher's        *)
(* autojunk heuristic starts, and no junk predicate is given, so every     *)
(* character takes part in the matching.                                   *)
(***************************************************************************)

\* Length of the common run of a from i and b from j, inside a[..ahi], b[..bhi].
RECURSIVE RunLen(_, _, _, _, _, _)
RunLen(a, b, i, j, ahi, bhi) ==
    IF i <= ahi /\ j <= bhi /\ a[i] = b[j]
    THEN 1 + RunLen(a, b, i + 1, j + 1, ahi, bhi)
    ELSE 0

\* SequenceMatcher.find_longest_match on a[alo..ahi], b[blo..bhi] (1-based,
\* inclusive): <<i, j, k>>, the longest matching block; of all the longest,
\* the one that starts earliest in a, and of those the earliest in b.
FindLongestMatch(a, b, alo, ahi, blo, bhi) ==
    LET cand == {<<i, j, RunLen(a, b, i, j, ahi, bhi)>> :
                    <<i, j>> \in (alo..ahi) \X (blo..bhi)}
        live == {c \in cand : c[3] > 0}
    IN  IF live = {} THEN <<alo, blo, 0>>
        ELSE CHOOSE c \in live :
                \A d \in live :
                    \/ c[3] > d[3]
                    \/ c[3] = d[3] /\ c[1] < d[1]
                    \/ c[3] = d[3] /\ c[1] = d[1] /\ c[2] <= d[2]

\* Sum of the sizes of SequenceMatcher.get_matching_blocks: the longest block,
\* then the same again to its left and to its right.
RECURSIVE MatchingBlocks(_, _, _, _, _, _)
MatchingBlocks(a, b, alo, ahi, blo, bhi) ==
    IF alo > ahi \/ blo > bhi THEN 0
    ELSE LET m == FindLongestMatch(a, b, alo, ahi, blo, bhi)
         IN  IF m[3] = 0 THEN 0
             ELSE m[3]
                  + MatchingBlocks(a, b, alo, m[1] - 1, blo, m[2] - 1)
                  + MatchingBlocks(a, b, m[1] + m[3], ahi, m[2] + m[3], bhi)

\* Number of occurrences of c in s.
Count(s, c) == Cardinality({i \in 1..Len(s) : s[i] = c})

Min(x, y) == IF x <= y THEN x ELSE y
Max(x, y) == IF x >= y THEN x ELSE y

\* A similarity ratio 2.0*M/T is kept as the fraction <<2*M, T>>; T = 0 gives
\* 1.0 (_calculate_ratio).  Fractions this small are distinct as doubles when
\* they are distinct as rationals, so comparing them exactly is comparing the
\* doubles.
CalculateRatio(matches, length) ==
    IF length = 0 THEN <<1, 1>> ELSE <<2 * matches, length>>

\* SequenceMatcher(a = x, b = word).ratio()
Ratio(x, word) ==
    CalculateRatio(MatchingBlocks(x, word, 1, Len(x), 1, Len(word)),
                   Len(x) + Len(word))

\* .quick_ratio(): the size of the multiset intersection bounds the matches.
QuickRatio(x, word) ==
    LET elts == {x[i] : i \in 1..Len(x)}
        RECURSIVE Sum(_)
        Sum(S) == IF S = {} THEN 0
                  ELSE LET c == CHOOSE e \in S : TRUE
                       IN  Min(Count(x, c), Count(word, c)) + Sum(S \ {c})
    IN  CalculateRatio(Sum(elts), Len(x) + Len(word))

\* .real_quick_ratio(): no more matches than the shorter sequence has elements.
RealQuickRatio(x, word) ==
    CalculateRatio(Min(Len(x), Len(word)), Len(x) + Len(word))

\* r1 >= r2 and r1 > r2 on ratios.
RatioGeq(r1, r2) == r1[1] * r2[2] >= r2[1] * r1[2]
RatioGt(r1, r2) == r1[1] * r2[2] > r2[1] * r1[2]

\* The cutoff get_close_matches has when the call names none: 0.6.
Cutoff_Default == <<6, 10>>

\* cutoff=0.3 of the get_close_matches call, as the fraction CutoffNum/CutoffDen.
CutoffNum == 3
CutoffDen == 10
Cutoff == <<CutoffNum, CutoffDen>>

\* n=3 of the get_close_matches call.
NClose == 3

\* The filter of get_close_matches: all three ratios reach the cutoff.
PassesCutoff(x, word, cutoff) ==
    /\ RatioGeq(RealQuickRatio(x, word), cutoff)
    /\ RatioGeq(QuickRatio(x, word), cutoff)
    /\ RatioGeq(Ratio(x, word), cutoff)

\* (score, x) tuples of Python compared: by score, then by the string.
TupleGt(x, y, word) ==
    \/ RatioGt(Ratio(x, word), Ratio(y, word))
    \/ /\ ~RatioGt(Ratio(y, word), Ratio(x, word))
       /\ StrLess(y, x)

\* heapq.nlargest(n, result): result sorted in descending order, cut to n.
\* idx is the set of positions of possibilities still to be placed.
RECURSIVE NLargest(_, _, _, _)
NLargest(n, idx, possibilities, word) ==
    IF n = 0 \/ idx = {} THEN <<>>
    ELSE LET top == CHOOSE i \in idx :
                      \A k \in idx :
                         \/ TupleGt(possibilities[i], possibilities[k], word)
                         \/ /\ ~TupleGt(possibilities[k], possibilities[i], word)
                            /\ i <= k
         IN  <<possibilities[top]>>
             \o NLargest(n - 1, idx \ {top}, possibilities, word)

\* difflib.get_close_matches(word, possibilities, n, cutoff)
GetCloseMatches(word, possibilities, n, cutoff) ==
    NLargest(n,
             {i \in 1..Len(possibilities) :
                 PassesCutoff(possibilities[i], word, cutoff)},
             possibilities, word)

(***************************************************************************)
(* find_closest_device                                                     *)
(***************************************************************************)

\* Strategy 1 comparing the names as they are written.
ExactMatches_CaseSensitive(name, devs) ==
    {i \in 1..Len(devs) : devs[i] = name}

\* Strategy 1: the first device equal to the query when both are lower-cased.
ExactMatches(name, devs) ==
    {i \in 1..Len(devs) : Lower(devs[i]) = Lower(name)}

\* Strategy 2: matching_devices, as positions in the device list.
SubstringMatches(name, devs) ==
    {i \in 1..Len(devs) : Contains(Lower(devs[i]), Lower(name))}

\* The last of the shortest instead of the first.
MinByLen_Last(idx, devs) ==
    CHOOSE i \in idx :
        \A k \in idx : \/ Len(devs[i]) < Len(devs[k])
                       \/ Len(devs[i]) = Len(devs[k]) /\ i >= k

\* min(matching_devices, key=len): the first of the shortest.
MinByLen(idx, devs) ==
    CHOOSE i \in idx :
        \A k \in idx : \/ Len(devs[i]) < Len(devs[k])
                       \/ Len(devs[i]) = Len(devs[k]) /\ i <= k

SmallestIndex(idx) == CHOOSE i \in idx : \A k \in idx : i <= k

FindClosestDevice(name, devs) ==
    IF devs = <<>> THEN None
    ELSE IF ExactMatches(name, devs) # {}
         THEN Some(devs[SmallestIndex(ExactMatches(name, devs))])
    ELSE IF SubstringMatches(name, devs) # {}
         THEN Some(devs[MinByLen(SubstringMatches(name, devs), devs)])
    ELSE LET matches == GetCloseMatches(name, devs, NClose, Cutoff)
         IN  IF matches # <<>> THEN Some(matches[1]) ELSE None

(***************************************************************************)
(* The audio backend, as the two command-line tools present it             *)
(*                                                                         *)
(* One subprocess.run ends in one of these ways:                           *)
(*   "ok"       exit status 0 and an answer the caller can use             *)
(*   "fail"     non-zero exit status: CalledProcessError                   *)
(*   "unusable" exit status 0, but the output is empty, "missing value"    *)
(*              or (get_volume) no integer                                 *)
(*   "oserror"  the tool cannot be started: FileNotFoundError              *)
(* A function is given the outcomes of its calls, in the order it makes    *)
(* them, as a sequence that ends with the call after which it returns.  A  *)
(* tool that cannot be started fails so at the first call of an            *)
(* invocation; one that has been started once can be started again.        *)
(***************************************************************************)

\* Sequences of at most n outcomes: outcomes of `cont` (the loop goes on to
\* the next command), ended by "ok" (the function returns) unless all n
\* commands have been tried.
RECURSIVE OutcomeSeqs(_, _)
OutcomeSeqs(n, cont) ==
    IF n = 0 THEN {<<>>}
    ELSE {<<"ok">>}
         \cup {<<o>> \o s : o \in cont, s \in OutcomeSeqs(n - 1, cont)}

\* The same, for the calls an invocation begins with.
FirstOutcomeSeqs(n, cont) == {<<"oserror">>} \cup OutcomeSeqs(n, cont)

Call(prog, script, value, outcome) ==
    [prog |-> prog, script |-> script, value |-> value,
     raised |-> outcome \in {"fail", "oserror"}]

MsgUnaffected ==
    "The device switching functionality is not affected and continues to work."
MsgPermissions == "Additional permissions may be required."

(***************************************************************************)
(* get_volume                                                              *)
(***************************************************************************)

GetVolumeCommands ==
    << "output volume of (get volume settings)",
       "tell application \"System Events\" to get output volume of (get volume settings)",
       "output volume of (get volume settings)" >>

GetVolumeOutcomes ==
    FirstOutcomeSeqs(Len(GetVolumeCommands), {"fail", "unusable"})

\* The command at which a for loop over n commands is left: the first whose
\* outcome is "ok" or "oserror" (a return, or an exception that no handler
\* inside the loop catches), n + 1 when the loop runs to its end.
LoopExit(outs, n) ==
    LET ends == {k \in 1..Min(n, Len(outs)) : outs[k] \in {"ok", "oserror"}}
    IN  IF ends = {} THEN n + 1 ELSE CHOOSE k \in ends : \A j \in ends : k <= j

\* The calls a for loop over `commands` has made when it is left.
LoopCalls(commands, value, outs) ==
    [k \in 1..Min(LoopExit(outs, Len(commands)), Len(commands)) |->
        Call("osascript", commands[k], value, outs[k])]

\* The result of a function that the exception of its last call leaves
\* through no handler of its own.
Raise(cl) ==
    [ret |-> None, calls |-> cl, err |-> <<>>, out |-> <<>>, uncaught |-> TRUE]

\* get_volume without its `except Exception`: the loop catches
\* CalledProcessError and ValueError only.
GetVolume_NoOuterHandler(outs, vol) ==
    LET k == LoopExit(outs, Len(GetVolumeCommands))
        cl == LoopCalls(GetVolumeCommands, 0, outs)
    IN  IF k > Len(GetVolumeCommands)
        THEN [ret |-> None, calls |-> cl,
              err |-> << "Volume control is not available on this system.",
                         MsgPermissions, MsgUnaffected >>,
              out |-> <<>>, uncaught |-> FALSE]
        ELSE IF outs[k] = "ok"
        THEN [ret |-> Some(vol), calls |-> cl, err |-> <<>>, out |-> <<>>,
              uncaught |-> FALSE]
        ELSE Raise(cl)

\* get_volume; vol is the volume the backend holds.
\* [ret, calls, err, out, uncaught]: ret is Some(volume) or None; uncaught
\* says that an exception left the function.
GetVolume(outs, vol) ==
    LET k == LoopExit(outs, Len(GetVolumeCommands))
        cl == LoopCalls(GetVolumeCommands, 0, outs)
    IN  IF k > Len(GetVolumeCommands)
        THEN [ret |-> None, calls |-> cl,
              err |-> << "Volume control is not available on this system.",
                         MsgPermissions, MsgUnaffected >>,
              out |-> <<>>, uncaught |-> FALSE]
        ELSE IF outs[k] = "ok"
        THEN [ret |-> Some(vol), calls |-> cl, err |-> <<>>, out |-> <<>>,
              uncaught |-> FALSE]
        ELSE [ret |-> None, calls |-> cl,
              err |-> <<"Error determining volume: {e}", MsgUnaffected>>,
              out |-> <<>>, uncaught |-> FALSE]

(***************************************************************************)
(* set_volume                                                              *)
(***************************************************************************)

\* max(0, min(100, level))
Clamp(level) == Max(0, Min(100, level))

SetVolumeCommands ==
    << "set volume output volume {level}",
       "tell application \"System Events\" to set volume output volume {level}",
       "set volume {level/10}" >>

SetVolumeOutcomes == FirstOutcomeSeqs(Len(SetVolumeCommands), {"fail"})

\* x / y rounded to the nearest integer, for x >= 0 and y > 0.
RoundDiv(x, y) == (2 * x + y) \div (2 * y)

\* The volume the backend holds after the k-th command of set_volume has
\* succeeded.  `output volume` takes the level as it is, on 0..100.  The third
\* command passes level/10 as the direct parameter of `set volume`, a real
\* number on a scale from 0 to `scale` on which `scale` is the full volume.
BackendSetVolume(k, level, scale) ==
    IF k \in {1, 2} THEN level
    ELSE Min(100, RoundDiv(level * 100, 10 * scale))

\* set_volume after the clamping of level.
\* [ret, calls, err, out, uncaught, volume]: ret is the bool returned, volume
\* the volume the backend holds afterwards.
SetVolumeLoop(level, outs, vol, scale) ==
    LET k == LoopExit(outs, Len(SetVolumeCommands))
        cl == LoopCalls(SetVolumeCommands, level, outs)
    IN  IF k > Len(SetVolumeCommands)
        THEN [ret |-> FALSE, calls |-> cl,
              err |-> << "Volume control is not available on this system.",
                         MsgPermissions, MsgUnaffected >>,
              out |-> <<>>, uncaught |-> FALSE, volume |-> vol]
        ELSE IF outs[k] = "ok"
        THEN [ret |-> TRUE, calls |-> cl, err |-> <<>>,
              out |-> <<"Volume set to {level}%">>, uncaught |-> FALSE,
              volume |-> BackendSetVolume(k, level, scale)]
        ELSE [ret |-> FALSE, calls |-> cl,
              err |-> <<"Error setting volume: {e}", MsgUnaffected>>,
              out |-> <<>>, uncaught |-> FALSE, volume |-> vol]

SetVolume(level, outs, vol, scale) ==
    SetVolumeLoop(Clamp(level), outs, vol, scale)

(***************************************************************************)
(* adjust_volume                                                           *)
(***************************************************************************)

\* adjust_volume going on to set_volume whatever get_volume returned, None
\* counted as 0.
AdjustVolume_NoCheck(delta, gouts, souts, vol, scale) ==
    LET g == GetVolume(gouts, vol)
        current_volume == IF g.ret = None THEN 0 ELSE g.ret[1]
        new_volume == Max(0, Min(100, current_volume + delta))
        s == SetVolume(new_volume, IF souts = <<>> THEN <<"ok">> ELSE souts,
                       vol, scale)
    IN  [s EXCEPT !.calls = g.calls \o @, !.err = g.err \o @]
        @@ [current |-> g.ret]

\* gouts: the outcomes of get_volume's calls; souts: those of set_volume's.
\* [ret, calls, err, out, uncaught, volume, current]: current is what
\* get_volume returned.
AdjustVolume(delta, gouts, souts, vol, scale) ==
    LET g == GetVolume(gouts, vol)
        current_volume == g.ret
    IN  IF g.uncaught
        THEN Raise(g.calls) @@ [volume |-> vol, current |-> None]
        ELSE IF current_volume = None
        THEN [ret |-> FALSE, calls |-> g.calls,
              err |-> g.err \o
                  << "Volume could not be adjusted because the current volume could not be determined.",
                     MsgUnaffected >>,
              out |-> <<>>, uncaught |-> FALSE, volume |-> vol,
              current |-> current_volume]
        ELSE LET new_volume == Max(0, Min(100, current_volume[1] + delta))
                 s == SetVolume(new_volume, souts, vol, scale)
             IN  [s EXCEPT !.calls = g.calls \o @, !.err = g.err \o @]
                 @@ [current |-> current_volume]

(***************************************************************************)
(* toggle_mute                                                             *)
(***************************************************************************)

MuteCheckCommands ==
    << "output muted of (get volume settings)",
       "tell application \"System Events\" to get output muted of (get volume settings)" >>

MuteSetCommands ==
    << "set volume output muted {state}",
       "tell application \"System Events\" to set volume output muted {state}" >>

MuteCheckOutcomes ==
    FirstOutcomeSeqs(Len(MuteCheckCommands), {"fail", "unusable"})

MuteSetOutcomes == OutcomeSeqs(Len(MuteSetCommands), {"fail"})

MuteError ==
    <<"Error toggling mute state: {e}", MsgUnaffected>>

\* toggle_mute returning the state it found instead of the one it has set.
ToggleMute_ReturnsOld(couts, souts, m) ==
    LET kc == LoopExit(couts, Len(MuteCheckCommands))
        cc == LoopCalls(MuteCheckCommands, 0, couts)
    IN  IF kc > Len(MuteCheckCommands)
        THEN [ret |-> None, calls |-> cc,
              err |-> << "Mute control is not available on this system.",
                         MsgPermissions, MsgUnaffected >>,
              out |-> <<>>, uncaught |-> FALSE, muted |-> m]
        ELSE IF couts[kc] = "oserror"
        THEN [ret |-> None, calls |-> cc, err |-> MuteError,
              out |-> <<>>, uncaught |-> FALSE, muted |-> m]
        ELSE LET is_muted == m
                 ks == LoopExit(souts, Len(MuteSetCommands))
                 cs == LoopCalls(MuteSetCommands,
                                 IF is_muted THEN 0 ELSE 1, souts)
             IN  IF ks > Len(MuteSetCommands)
                 THEN [ret |-> None, calls |-> cc \o cs,
                       err |-> << "Mute state could not be toggled.",
                                  MsgPermissions, MsgUnaffected >>,
                       out |-> <<>>, uncaught |-> FALSE, muted |-> m]
                 ELSE IF souts[ks] = "ok"
                 THEN [ret |-> Some(is_muted), calls |-> cc \o cs,
                       err |-> <<>>,
                       out |-> <<IF is_muted THEN "Audio unmuted"
                                             ELSE "Audio muted">>,
                       uncaught |-> FALSE, muted |-> ~is_muted]
                 ELSE [ret |-> None, calls |-> cc \o cs, err |-> MuteError,
                       out |-> <<>>, uncaught |-> FALSE, muted |-> m]

\* couts: the outcomes of the checking calls; souts: those of the setting
\* calls; m: the mute flag the backend holds.
\* [ret, calls, err, out, uncaught, muted]: ret is Some(new state) or None.
ToggleMute(couts, souts, m) ==
    LET kc == LoopExit(couts, Len(MuteCheckCommands))
        cc == LoopCalls(MuteCheckCommands, 0, couts)
    IN  IF kc > Len(MuteCheckCommands)
        THEN [ret |-> None, calls |-> cc,
              err |-> << "Mute control is not available on this system.",
                         MsgPermissions, MsgUnaffected >>,
              out |-> <<>>, uncaught |-> FALSE, muted |-> m]
        ELSE IF couts[kc] = "oserror"
        THEN [ret |-> None, calls |-> cc, err |-> MuteError,
              out |-> <<>>, uncaught |-> FALSE, muted |-> m]
        ELSE LET is_muted == m
                 ks == LoopExit(souts, Len(MuteSetCommands))
                 cs == LoopCalls(MuteSetCommands,
                                 IF is_muted THEN 0 ELSE 1, souts)
             IN  IF ks > Len(MuteSetCommands)
                 THEN [ret |-> None, calls |-> cc \o cs,
                       err |-> << "Mute state could not be toggled.",
                                  MsgPermissions, MsgUnaffected >>,
                       out |-> <<>>, uncaught |-> FALSE, muted |-> m]
                 ELSE IF souts[ks] = "ok"
                 THEN [ret |-> Some(~is_muted), calls |-> cc \o cs,
                       err |-> <<>>,
                       out |-> <<IF is_muted THEN "Audio unmuted"
                                             ELSE "Audio muted">>,
                       uncaught |-> FALSE, muted |-> ~is_muted]
                 ELSE [ret |-> None, calls |-> cc \o cs, err |-> MuteError,
                       out |-> <<>>, uncaught |-> FALSE, muted |-> m]

(***************************************************************************)
(* Inputs of the resolver                                                  *)
(***************************************************************************)

\* Code points the generated names are written in: 'A', 'a', 'b'.
Alphabet == {65, 97, 98}

\* Most characters a generated device list holds, over all its names.
MaxChars == 4

\* Longest generated query.
MaxQueryLen == 2

Strs(n) == [1..n -> Alphabet]

\* Every list of non-empty names over Alphabet of at most t characters in all.
RECURSIVE ListsUpTo(_)
ListsUpTo(t) ==
    {<<>>} \cup
    UNION {{<<n>> \o l : n \in Strs(k), l \in ListsUpTo(t - k)} : k \in 1..t}

GeneratedQueries == UNION {Strs(n) : n \in 0..MaxQueryLen}

Str_HomePodMini == <<72, 111, 109, 101, 80, 111, 100, 32, 77, 105, 110, 105>>  \* "HomePod Mini"
Str_HomePood == <<72, 111, 109, 101, 80, 111, 111, 100>>  \* "HomePood"
Str_XboxController == <<88, 98, 111, 120, 32, 67, 111, 110, 116, 114, 111, 108, 108, 101, 114>>  \* "Xbox Controller"
Str_Speakers == <<83, 112, 101, 97, 107, 101, 114, 115>>  \* "Speakers"
Str_speakers == <<115, 112, 101, 97, 107, 101, 114, 115>>  \* "speakers"
Str_SPEAKERS == <<83, 80, 69, 65, 75, 69, 82, 83>>  \* "SPEAKERS"
Str_MacBookProSpeakers == <<77, 97, 99, 66, 111, 111, 107, 32, 80, 114, 111, 32, 83, 112, 101, 97, 107, 101, 114, 115>>  \* "MacBook Pro Speakers"
Str_AirPodsPro == <<65, 105, 114, 80, 111, 100, 115, 32, 80, 114, 111>>  \* "AirPods Pro"
Str_airpods == <<97, 105, 114, 112, 111, 100, 115>>  \* "airpods"
Str_StudioDisplay == <<83, 116, 117, 100, 105, 111, 32, 68, 105, 115, 112, 108, 97, 121>>  \* "Studio Display"
Str_BuiltInSpeakers == <<66, 117, 105, 108, 116, 45, 105, 110, 32, 83, 112, 101, 97, 107, 101, 114, 115>>  \* "Built-in Speakers"
Str_ExternalSpeakersSystem == <<69, 120, 116, 101, 114, 110, 97, 108, 32, 83, 112, 101, 97, 107, 101, 114, 115, 32, 83, 121, 115, 116, 101, 109>>  \* "External Speakers System"
Str_abc == <<97, 98, 99>>  \* "abc"
Str_abcd == <<97, 98, 99, 100>>  \* "abcd"
Str_axx == <<97, 120, 120>>  \* "axx"
Str_abcdefghij == <<97, 98, 99, 100, 101, 102, 103, 104, 105, 106>>  \* "abcdefghij"
Str_abcqrstuvw == <<97, 98, 99, 113, 114, 115, 116, 117, 118, 119>>  \* "abcqrstuvw"
Str_abcdqrstuv == <<97, 98, 99, 100, 113, 114, 115, 116, 117, 118>>  \* "abcdqrstuv"

\* Device lists with realistic names, and the queries tried against them.
\* They hold ratios on both sides of the cutoff: 2/7 ("abcd", "axx"), 3/10
\* ("abcdefghij", "abcqrstuvw"), 1/3 ("abc", "axx"), 4/27 and 7/10.
ExampleLists ==
    { <<Str_HomePodMini>>,
      <<Str_MacBookProSpeakers, Str_Speakers>>,
      <<Str_speakers, Str_Speakers>>,
      <<Str_ExternalSpeakersSystem, Str_BuiltInSpeakers>>,
      <<Str_AirPodsPro, Str_StudioDisplay>>,
      <<Str_axx>>,
      <<Str_abcqrstuvw>>,
      <<Str_abcqrstuvw, Str_abcdqrstuv>>,
      <<Str_XboxController, Str_abcqrstuvw, Str_axx>> }

ExampleQueries ==
    { Str_HomePood, Str_XboxController, Str_Speakers, Str_SPEAKERS,
      Str_airpods, Str_abc, Str_abcd, Str_abcdefghij }

ResolverInputs ==
    (ListsUpTo(MaxChars) \X GeneratedQueries)
    \cup (ExampleLists \X (ExampleQueries \cup GeneratedQueries))

(***************************************************************************)
(* The resolver on its own: find_closest_device applied to every input     *)
(***************************************************************************)

InitResolve ==
    /\ \E in \in ResolverInputs : devices = in[1] /\ arg = in[2]
    /\ active = None /\ volume = 0 /\ muted = FALSE /\ legacyScale = 10
    /\ cmd = "none" /\ ret = None /\ exitCode = 0 /\ exitSite = "none"
    /\ calls = <<>> /\ stderr = <<>> /\ stdout = <<>>
    /\ resolverCalls = 0
    /\ before = [volume |-> 0, muted |-> FALSE]
    /\ prior = None
    /\ runs = 0
    /\ currentVolume = None

Resolve ==
    /\ cmd = "none"
    /\ cmd' = "resolve"
    /\ ret' = FindClosestDevice(arg, devices)
    /\ resolverCalls' = 1
    /\ UNCHANGED <<devices, active, volume, muted, legacyScale, arg, exitCode,
                   exitSite, calls, stderr, stdout, before, prior, runs,
                   currentVolume>>

NextResolve == Resolve

SpecResolve == InitResolve /\ [][NextResolve]_vars


(***************************************************************************)
(* list_devices, get_current_device, switch_device                         *)
(***************************************************************************)

ToolOutcomes == {"ok", "fail", "oserror"}

\* list_devices: [ret, calls, err, exit]; ret is Some(list), or None when the
\* function ended the process with sys.exit(1).
ListDevices(outcome, devs) ==
    LET c == Call("SwitchAudioSource", "-t output -a", 0, outcome)
    IN  CASE outcome = "ok" ->
               [ret |-> Some(devs), calls |-> <<c>>, err |-> <<>>]
          [] outcome = "oserror" ->
               [ret |-> None, calls |-> <<c>>,
                err |-> <<"Error: SwitchAudioSource not found. Install via brew install switchaudio-osx.">>]
          [] OTHER ->
               [ret |-> None, calls |-> <<c>>,
                err |-> <<"Error listing devices: {e.stderr}">>]

\* get_current_device: [ret, calls, uncaught]; only CalledProcessError is
\* caught, a tool that cannot be started raises out of the function.
GetCurrentDevice(outcome, act) ==
    LET c == Call("SwitchAudioSource", "-c -t output", 0, outcome)
    IN  [ret |-> IF outcome = "ok" THEN Some(act) ELSE None,
         calls |-> <<c>>,
         uncaught |-> outcome = "oserror"]

\* Python's `name in devices`.
InList(name, devs) == \E i \in 1..Len(devs) : devs[i] = name

SelectCall(name, outcome) ==
    Call("SwitchAudioSource", "-t output -s {name}", name, outcome)

\* The select call tried a second time when it has failed.
Select_Retry(name, outcome, act, found) ==
    IF outcome = "ok"
    THEN [calls |-> <<SelectCall(name, outcome)>>, err |-> <<>>,
          out |-> <<"Switched audio output to: {name}">>,
          exitCode |-> 0, exitSite |-> "main", active |-> name]
    ELSE [calls |-> <<SelectCall(name, outcome), SelectCall(name, "ok")>>,
          err |-> <<>>, out |-> <<"Switched audio output to: {name}">>,
          exitCode |-> 0, exitSite |-> "main", active |-> name]

\* The try block around the select call of switch_device.
\* [calls, err, out, exitCode, exitSite, active].
Select(name, outcome, act, found) ==
    IF outcome = "ok"
    THEN [calls |-> <<SelectCall(name, outcome)>>, err |-> <<>>,
          out |-> (IF found THEN <<"Similar device found: '{closest_match}'">>
                            ELSE <<>>)
                  \o <<"Switched audio output to: {name}">>,
          exitCode |-> 0, exitSite |-> "main", active |-> name]
    ELSE [calls |-> <<SelectCall(name, outcome)>>,
          err |-> <<"Error switching device: {e.stderr}">>, out |-> <<>>,
          exitCode |-> 1, exitSite |-> "switch_device", active |-> act]

\* The else branch of switch_device, closest_match computed.
SwitchClosest(name, closest_match, sout, act, lcalls) ==
    IF closest_match # None /\ closest_match[1] # <<>>
    THEN [Select(closest_match[1], sout, act, TRUE)
             EXCEPT !.calls = lcalls \o @]
    ELSE [calls |-> lcalls,
          err |-> <<"No matching device found for '{name}'. Available devices: {devices}">>,
          out |-> <<>>, exitCode |-> 1, exitSite |-> "switch_device",
          active |-> act]

\* switch_device without the test `name in devices`: every name goes through
\* find_closest_device.
SwitchListed_AlwaysResolve(name, devs, sout, act, lcalls) ==
    [resolverCalls |-> 1] @@
    SwitchClosest(name, FindClosestDevice(name, devs), sout, act, lcalls)

\* switch_device after list_devices has returned the list devs.
\* [calls, err, out, exitCode, exitSite, active, resolverCalls].
SwitchListed(name, devs, sout, act, lcalls) ==
    IF InList(name, devs)
    THEN [resolverCalls |-> 0] @@
         [Select(name, sout, act, FALSE) EXCEPT !.calls = lcalls \o @]
    ELSE [resolverCalls |-> 1] @@
         SwitchClosest(name, FindClosestDevice(name, devs), sout, act, lcalls)

\* The outcome of the select call of switch_device: none when no select call
\* is reached.
SelectOutcomes(lout) == IF lout = "ok" THEN {"ok", "fail"} ELSE {"none"}

\* switch_device(name), and the end of main after it.  lout is the outcome
\* of the listing call, sout that of the select call.
SwitchDevice(name, lout, sout, devs, act) ==
    IF lout # "ok"
    THEN [calls |-> ListDevices(lout, devs).calls,
          err |-> ListDevices(lout, devs).err, out |-> <<>>, exitCode |-> 1,
          exitSite |-> "list_devices", active |-> act, resolverCalls |-> 0]
    ELSE SwitchListed(name, ListDevices(lout, devs).ret[1], sout, act,
                      ListDevices(lout, devs).calls)

(***************************************************************************)
(* Inputs of the program                                                   *)
(***************************************************************************)

\* Most invocations of the program in one behaviour.
MaxRuns == 2

\* LEVEL of --volume.
Levels == {-20, 55, 150}

\* AMOUNT of --volume-up and --volume-down.
Amounts == {10}

\* Output volumes the backend may hold when the first command runs.
InitVolumes == {95}

\* Full scale of the legacy direct parameter of `set volume`: 10 is what the
\* comment at the third command of set_volume takes it to be, 7 is what the
\* AppleScript dictionary of `set volume` gives.
LegacyScales == {7, 10}

SwitchLists ==
    { <<>>, <<Str_HomePodMini>>, <<Str_speakers, Str_Speakers>> }

SwitchQueries ==
    { Str_Speakers, Str_SPEAKERS, Str_HomePood, Str_XboxController }

(***************************************************************************)
(* main: one action for each command of the command line                   *)
(***************************************************************************)

Init ==
    /\ devices \in SwitchLists
    /\ active = IF devices = <<>> THEN <<>> ELSE devices[1]
    /\ volume \in InitVolumes
    /\ muted \in BOOLEAN
    /\ legacyScale \in LegacyScales
    /\ cmd = "none" /\ arg = 0 /\ ret = None
    /\ exitCode = 0 /\ exitSite = "none"
    /\ calls = <<>> /\ stderr = <<>> /\ stdout = <<>>
    /\ resolverCalls = 0
    /\ before = [volume |-> volume, muted |-> muted]
    /\ prior = None
    /\ runs = 0
    /\ currentVolume = None

\* What every invocation records about itself.
Invocation(c, a, r, code, site, cl, err, out) ==
    /\ runs < MaxRuns
    /\ runs' = runs + 1
    /\ cmd' = c /\ arg' = a /\ ret' = r
    /\ exitCode' = code /\ exitSite' = site
    /\ calls' = cl /\ stderr' = err /\ stdout' = out
    /\ before' = [volume |-> volume, muted |-> muted]

Traceback == "Traceback (most recent call last): ..."

\* An invocation whose command is one call r of a controller function: main
\* prints `out` and ends with sys.exit(code), unless an exception has left
\* the function, which ends the process with a traceback and status 1.
Controller(c, a, r, code, out) ==
    Invocation(c, a, r.ret,
               IF r.uncaught THEN 1 ELSE code,
               IF r.uncaught THEN "uncaught" ELSE "main",
               r.calls,
               IF r.uncaught THEN r.err \o <<Traceback>> ELSE r.err,
               IF r.uncaught THEN r.out ELSE r.out \o out)

\* --get-volume
GetVolumeCmd ==
    \E outs \in GetVolumeOutcomes :
        \E r \in {GetVolume(outs, volume)} :
            /\ Controller("get-volume", 0, r, 0,
                          IF r.ret # None THEN <<"Current volume: {volume}%">>
                                          ELSE <<>>)
            /\ prior' = None /\ resolverCalls' = 0 /\ currentVolume' = None
            /\ UNCHANGED <<devices, active, volume, muted, legacyScale>>

\* --volume LEVEL
SetVolumeCmd ==
    \E level \in Levels, outs \in SetVolumeOutcomes :
        \E r \in {SetVolume(level, outs, volume, legacyScale)} :
            /\ Controller("set-volume", level, [r EXCEPT !.ret = Some(@)],
                          IF r.ret THEN 0 ELSE 1, <<>>)
            /\ volume' = r.volume
            /\ prior' = None /\ resolverCalls' = 0 /\ currentVolume' = None
            /\ UNCHANGED <<devices, active, muted, legacyScale>>

\* The outcomes of set_volume's calls inside adjust_volume: none when
\* get_volume has not given a volume.
AdjustSetOutcomes(gouts) ==
    IF "ok" \in {gouts[i] : i \in 1..Len(gouts)}
    THEN OutcomeSeqs(Len(SetVolumeCommands), {"fail"})
    ELSE {<<>>}

\* --volume-up AMOUNT
VolumeUpCmd ==
    \E amount \in Amounts, gouts \in GetVolumeOutcomes :
        \E souts \in AdjustSetOutcomes(gouts) :
            \E r \in {AdjustVolume(amount, gouts, souts, volume, legacyScale)} :
                /\ Controller("volume-up", amount, [r EXCEPT !.ret = Some(@)],
                              IF r.ret = TRUE THEN 0 ELSE 1, <<>>)
                /\ volume' = r.volume
                /\ currentVolume' = r.current
                /\ prior' = None /\ resolverCalls' = 0
                /\ UNCHANGED <<devices, active, muted, legacyScale>>

\* --volume-down AMOUNT
VolumeDownCmd ==
    \E amount \in Amounts, gouts \in GetVolumeOutcomes :
        \E souts \in AdjustSetOutcomes(gouts) :
            \E r \in {AdjustVolume(-amount, gouts, souts, volume, legacyScale)} :
                /\ Controller("volume-down", amount, [r EXCEPT !.ret = Some(@)],
                              IF r.ret = TRUE THEN 0 ELSE 1, <<>>)
                /\ volume' = r.volume
                /\ currentVolume' = r.current
                /\ prior' = None /\ resolverCalls' = 0
                /\ UNCHANGED <<devices, active, muted, legacyScale>>

\* The outcomes of the setting calls of toggle_mute: none when the mute
\* state has not been read.
MuteSetOutcomesAfter(couts) ==
    IF "ok" \in {couts[i] : i \in 1..Len(couts)} THEN MuteSetOutcomes
    ELSE {<<>>}

\* --toggle-mute
ToggleMuteCmd ==
    \E couts \in MuteCheckOutcomes :
        \E souts \in MuteSetOutcomesAfter(couts) :
            \E r \in {ToggleMute(couts, souts, muted)} :
                /\ Controller("toggle-mute", 0, r,
                              IF r.ret = None THEN 1 ELSE 0, <<>>)
                /\ muted' = r.muted
                /\ prior' = IF cmd = "toggle-mute" /\ ret # None
                            THEN Some([ret |-> ret[1], muted |-> before.muted])
                            ELSE None
                /\ resolverCalls' = 0 /\ currentVolume' = None
                /\ UNCHANGED <<devices, active, volume, legacyScale>>

\* --current
CurrentCmd ==
    \E outcome \in ToolOutcomes :
        LET r == GetCurrentDevice(outcome, active)
            current == r.ret
        IN  /\ IF r.uncaught
               THEN Invocation("current", 0, None, 1, "uncaught", r.calls,
                               <<Traceback>>,
                               <<>>)
               ELSE IF current # None /\ current[1] # <<>>
               THEN Invocation("current", 0, current, 0, "main", r.calls,
                               <<>>, <<"{current}">>)
               ELSE Invocation("current", 0, current, 1, "main", r.calls,
                               <<"Error determining the current device">>,
                               <<>>)
            /\ prior' = None /\ resolverCalls' = 0 /\ currentVolume' = None
            /\ UNCHANGED <<devices, active, volume, muted, legacyScale>>

\* No option and no device name: the device list.
ListCmd ==
    \E cout \in ToolOutcomes, lout \in {"ok", "fail"} :
        LET c == GetCurrentDevice(cout, active)
            l == ListDevices(lout, devices)
        IN  /\ IF c.uncaught
               THEN Invocation("list", 0, None, 1, "uncaught", c.calls,
                               <<Traceback>>,
                               <<>>)
               ELSE IF l.ret = None
               THEN Invocation("list", 0, None, 1, "list_devices",
                               c.calls \o l.calls, l.err,
                               <<"Available output devices:">>)
               ELSE Invocation("list", 0, l.ret, 0, "main",
                               c.calls \o l.calls, <<>>,
                               <<"Available output devices:">>
                               \o [i \in 1..Len(l.ret[1]) |-> "  * {dev}{marker}"])
            /\ prior' = None /\ resolverCalls' = 0 /\ currentVolume' = None
            /\ UNCHANGED <<devices, active, volume, muted, legacyScale>>

\* A device name: switch_device(args.device)
SwitchCmd ==
    \E name \in SwitchQueries, lout \in ToolOutcomes :
        \E sout \in SelectOutcomes(lout) :
            \E r \in {SwitchDevice(name, lout, sout, devices, active)} :
                /\ Invocation("switch", name, None, r.exitCode, r.exitSite,
                              r.calls, r.err, r.out)
                /\ active' = r.active
                /\ resolverCalls' = r.resolverCalls
                /\ prior' = None /\ currentVolume' = None
                /\ UNCHANGED <<devices, volume, muted, legacyScale>>

Next ==
    \/ GetVolumeCmd
    \/ SetVolumeCmd
    \/ VolumeUpCmd
    \/ VolumeDownCmd
    \/ ToggleMuteCmd
    \/ CurrentCmd
    \/ ListCmd
    \/ SwitchCmd

Spec == Init /\ [][Next]_vars

(***************************************************************************)
(* Properties of the resolver (checked under SpecResolve)                  *)
(***************************************************************************)

Resolved == cmd = "resolve"

\* Positions of the devices equal to the query after lower-casing.
SameIgnoringCase == {i \in 1..Len(devices) : Lower(devices[i]) = Lower(arg)}

\* Positions of the devices whose lower-cased name contains the lower-cased query.
Containing ==
    {i \in 1..Len(devices) : Contains(Lower(devices[i]), Lower(arg))}

\* C1 as stated: whenever the query is a device name n, or any string equal
\* to n after lower-casing, find_closest_device returns n, whatever else the
\* list holds.
C1_AsStated ==
    Resolved => \A i \in SameIgnoringCase : ret = Some(devices[i])

\* C1: when the query is a device name n or a case-variant of n, and no device
\* earlier in the list is equal to n after lower-casing, find_closest_device
\* returns n: it returns the first device of the list that equals the query
\* case-insensitively.
C1_FirstCaseInsensitiveMatch ==
    Resolved =>
        \A i \in SameIgnoringCase :
            (\A k \in SameIgnoringCase : i <= k) => ret = Some(devices[i])

\* A case-variant of the second device is resolved to it although the first
\* device contains the query too.
C1_Witness ==
    /\ Resolved
    /\ Len(devices) >= 2
    /\ SameIgnoringCase = {2}
    /\ devices[2] # arg
    /\ 1 \in Containing
    /\ ret = Some(devices[2])

\* C2: when no device equals the query case-insensitively and some device
\* contains it, the result is a containing device no longer than any other
\* containing device, and the first in the list of those of its length; so the
\* only containing device when there is one.
C2_ShortestSubstringMatch ==
    (Resolved /\ SameIgnoringCase = {} /\ Containing # {}) =>
        \E i \in Containing :
            /\ ret = Some(devices[i])
            /\ \A k \in Containing :
                  /\ Len(devices[i]) <= Len(devices[k])
                  /\ Len(devices[i]) = Len(devices[k]) => i <= k

\* Two different devices of equal length contain the query and neither equals
\* it: the earlier one is returned.
C2_Witness ==
    /\ Resolved
    /\ SameIgnoringCase = {}
    /\ Containing = {1, 2}
    /\ Len(devices[1]) = Len(devices[2])
    /\ devices[1] # devices[2]
    /\ arg # <<>>
    /\ ret = Some(devices[1])

\* Positions of the devices whose similarity ratio to the query is at least 0.3.
Similar ==
    {i \in 1..Len(devices) : RatioGeq(Ratio(devices[i], arg), <<3, 10>>)}

\* C3: when no device equals or contains the query (case-insensitively), the
\* result is NotFound exactly when no device has a ratio of at least 0.3 (so
\* for the empty list), and otherwise a device with a ratio of at least 0.3
\* that no device's ratio exceeds; "HomePood" against ["HomePod Mini"] gives
\* "HomePod Mini", "Xbox Controller" against it gives NotFound.
C3_FuzzyMatch ==
    (Resolved /\ SameIgnoringCase = {} /\ Containing = {}) =>
        /\ (ret = None) <=> (Similar = {})
        /\ devices = <<>> => ret = None
        /\ ret # None =>
              \E i \in Similar :
                  /\ ret = Some(devices[i])
                  /\ \A k \in 1..Len(devices) :
                        RatioGeq(Ratio(devices[i], arg), Ratio(devices[k], arg))
        /\ (devices = <<Str_HomePodMini>> /\ arg = Str_HomePood)
              => ret = Some(Str_HomePodMini)
        /\ (devices = <<Str_HomePodMini>> /\ arg = Str_XboxController)
              => ret = None

\* The fuzzy step decides between three devices: one below the cutoff (1/5),
\* one exactly at it (3/10) and one above (2/5, with the 4/13 of "axx" also in
\* the list of a second case); the result is the one with the highest ratio.
C3_Witness ==
    /\ Resolved
    /\ SameIgnoringCase = {} /\ Containing = {}
    /\ devices = <<Str_abcqrstuvw, Str_abcdqrstuv>>
    /\ arg = Str_abcdefghij
    /\ Similar = {1, 2}
    /\ ~RatioGt(Ratio(devices[1], arg), <<3, 10>>)
    /\ ret = Some(Str_abcdqrstuv)

(***************************************************************************)
(* Properties of switch_device (checked under Spec)                        *)
(***************************************************************************)

\* Positions in calls of the backend's device-select calls.
SelectCalls ==
    {i \in 1..Len(calls) : calls[i].script = "-t output -s {name}"}

\* The last invocation was a switch_device that got the device list.
Switched == cmd = "switch" /\ exitSite # "list_devices"

\* C4: when the query of switch_device is, byte for byte, a name of the list
\* just fetched, exactly one select call is issued, for that very name, and
\* find_closest_device is not called; find_closest_device is called only
\* when no name of the list is byte-for-byte the query.
C4_ExactNameBypassesResolver ==
    Switched =>
        /\ InList(arg, devices) =>
              /\ resolverCalls = 0
              /\ Cardinality(SelectCalls) = 1
              /\ \A i \in SelectCalls : calls[i].value = arg
        /\ resolverCalls > 0 => ~InList(arg, devices)

\* "Speakers" is switched to by name in ["speakers", "Speakers"], where
\* find_closest_device would have chosen "speakers".
C4_Witness ==
    /\ Switched
    /\ InList(arg, devices)
    /\ FindClosestDevice(arg, devices) # Some(arg)
    /\ resolverCalls = 0
    /\ \E i \in SelectCalls : calls[i].value = arg /\ ~calls[i].raised
    /\ active = arg

\* C5: a switch_device issues at most one select call; a select call that
\* fails is the last backend call of the run, is reported on stderr and
\* ends the run with a non-zero status, the selected device unchanged; and
\* when no device matches (NotFound) no select call is issued.
C5_SelectNeverRetried ==
    cmd = "switch" =>
        /\ Cardinality(SelectCalls) <= 1
        /\ \A i \in SelectCalls :
              calls[i].raised =>
                  /\ i = Len(calls)
                  /\ stderr = <<"Error switching device: {e.stderr}">>
                  /\ exitCode = 1
        /\ (Switched /\ ~InList(arg, devices)
              /\ FindClosestDevice(arg, devices) = None) =>
                  /\ SelectCalls = {}
                  /\ exitCode = 1

\* A select call for a fuzzily matched device fails.
C5_Witness ==
    /\ Switched
    /\ resolverCalls = 1
    /\ \E i \in SelectCalls : calls[i].raised /\ calls[i].value # arg
    /\ exitCode = 1
    /\ exitSite = "switch_device"

(***************************************************************************)
(* Properties of the volume and mute controller (checked under Spec)       *)
(***************************************************************************)

Adjusted == cmd \in {"volume-up", "volume-down"}

\* delta of the adjust_volume call of the last invocation.
Delta == IF cmd = "volume-up" THEN arg ELSE 0 - arg

\* Positions in calls of the volume-setting calls.
SetVolumeCalls ==
    {i \in 1..Len(calls) :
        \E k \in 1..Len(SetVolumeCommands) :
            calls[i].script = SetVolumeCommands[k]}

\* C6: after a set_volume(level) that returned True, the backend holds the
\* volume clamp(level, 0, 100), whichever of the three commands succeeded.
C6_StoredVolumeIsClampedLevel ==
    (cmd = "set-volume" /\ ret = Some(TRUE)) =>
        volume = Max(0, Min(100, arg))

\* C7: after an adjust_volume(delta) that read the current volume c and
\* returned True, the backend holds clamp(c + delta, 0, 100); the volume the
\* backend holds is always in 0..100.
C7_AdjustStoresClampedSum ==
    /\ volume \in 0..100
    /\ (Adjusted /\ ret = Some(TRUE)) =>
          volume = Max(0, Min(100, before.volume + Delta))

\* C8: an adjust_volume whose get_volume returned None returns False, issues
\* no volume-setting call and leaves the backend's volume as it was.
C8_NoSetWithoutBaseline ==
    (Adjusted /\ exitSite = "main" /\ currentVolume = None) =>
        /\ ret = Some(FALSE)
        /\ SetVolumeCalls = {}
        /\ volume = before.volume

\* adjust_volume gave up after all three reading commands had been tried.
C8_Witness ==
    /\ Adjusted
    /\ currentVolume = None
    /\ Len(calls) = Len(GetVolumeCommands)
    /\ ret = Some(FALSE)
    /\ exitCode = 1

\* C9: a toggle_mute that returns a state returns the state the backend
\* holds afterwards, which is the opposite of the one it held before; and a
\* toggle_mute that follows directly on another, both returning a state,
\* returns the state the backend held before the first.
C9_ToggleAlternates ==
    (cmd = "toggle-mute" /\ ret # None) =>
        /\ ret[1] = muted
        /\ muted # before.muted
        /\ prior # None =>
              /\ ret[1] = prior[1].muted
              /\ ret[1] # prior[1].ret

\* The second of two successive toggle_mute calls, each through the second
\* of the setting commands.
C9_Witness ==
    /\ cmd = "toggle-mute" /\ ret # None
    /\ prior # None
    /\ ret[1] = prior[1].muted
    /\ Len(calls) > 2

ControllerCmds ==
    {"get-volume", "set-volume", "volume-up", "volume-down", "toggle-mute"}

\* The controller function of the last invocation reported Unavailable.
Unavailable ==
    /\ cmd \in ControllerCmds
    /\ IF cmd \in {"get-volume", "toggle-mute"} THEN ret = None
       ELSE ret # Some(TRUE)

SwitchErrors ==
    { "Error switching device: {e.stderr}",
      "Error listing devices: {e.stderr}",
      "No matching device found for '{name}'. Available devices: {devices}",
      "Error: SwitchAudioSource not found. Install via brew install switchaudio-osx." }

\* C10: no controller function ends the process: whenever one of them fails,
\* it returns its Unavailable value (None or False) to main, which goes on to
\* its own sys.exit; the failure is reported on stderr by a message that ends
\* with the note that device switching is not affected, and none of the
\* messages is one of the device-switching errors.
C10_ControllerFailureNotFatal ==
    /\ cmd \in ControllerCmds => exitSite = "main"
    /\ Unavailable =>
          /\ stderr # <<>>
          /\ stderr[Len(stderr)] = MsgUnaffected
          /\ \A i \in 1..Len(stderr) : stderr[i] \notin SwitchErrors
          /\ exitCode \in {0, 1}

\* osascript cannot be started: get_volume returns None, main prints nothing
\* and ends with status 0.
C10_Witness ==
    /\ cmd = "get-volume"
    /\ ret = None
    /\ Len(calls) = 1 /\ calls[1].raised
    /\ stderr = <<"Error determining volume: {e}", MsgUnaffected>>
    /\ exitSite = "main" /\ exitCode = 0

(***************************************************************************)
(* Exit status of main (checked under Spec)                                *)
(***************************************************************************)

\* The command of the last invocation did what was asked of it.
Succeeded ==
    CASE cmd = "get-volume" -> ret # None
      [] cmd \in {"set-volume", "volume-up", "volume-down"} -> ret = Some(TRUE)
      [] cmd = "toggle-mute" -> ret # None
      [] cmd = "current" -> ret # None /\ ret[1] # <<>>
      [] cmd = "list" -> ret # None
      [] cmd = "switch" -> \E i \in SelectCalls : ~calls[i].raised
      [] OTHER -> TRUE

\* The last invocation reported a failure on stderr.
ReportedFailure == cmd # "none" /\ ~Succeeded /\ stderr # <<>>

\* C11: every invocation ends with status 0 when its command succeeded and
\* with status 1 when it reported a failure, for each of get-volume,
\* set-volume, volume-up, volume-down, toggle-mute, current, list and the
\* device switch.
C11_ExitCodeReflectsOutcome ==
    cmd # "none" =>
        /\ Succeeded => exitCode = 0
        /\ ReportedFailure => exitCode = 1

=============================================================================
